---- MODULE Spec2Model ----
(***************************************************************************)
(* Gradient-accumulation rewrite of alpa/shard_parallel/shard_callable.py. *)
(*                                                                         *)
(* A call of add_gradient_accumulation is a sequence of steps over the     *)
(* locals of the call (frame) and the state of the gensym closure it       *)
(* creates (gensym_func).  Each step is a pure operator on (frame,         *)
(* counter); the actions apply one step to one call, so that several       *)
(* calls can interleave.  add_gradient_accumulation composes the same      *)
(* steps for a call that runs alone.  compile is the call of               *)
(* shard_parallel_callable that compiles a function.                       *)
(***************************************************************************)
EXTENDS Integers, Sequences, FiniteSets, TLC

VARIABLES pc, frame, gensym_func, run, compile

vars == <<pc, frame, gensym_func, run, compile>>

(***************************************************************************)
(* Bounds of the model.                                                    *)
(***************************************************************************)
MaxGrads == 2
MaxMicroBatches == 2
MaxBatchVal == 2
MaxDevices == 4

(***************************************************************************)
(* Python list helpers.                                                    *)
(***************************************************************************)
Range(s) == {s[k] : k \in DOMAIN s}

\* xs[:-n]  (n >= 0; -0 is 0, so xs[:-0] is xs[:0], the empty list)
SliceToNeg(xs, n) ==
    IF n = 0 \/ n >= Len(xs) THEN <<>> ELSE SubSeq(xs, 1, Len(xs) - n)

\* xs[-n:]  (n >= 0; xs[-0:] is xs[0:], the whole list)
SliceFromNeg(xs, n) ==
    IF n = 0 \/ n >= Len(xs) THEN xs ELSE SubSeq(xs, Len(xs) - n + 1, Len(xs))

\* xs.index(x), 0-based; -1 stands for the ValueError of an absent element
Index(xs, x) ==
    IF x \in Range(xs)
    THEN (CHOOSE k \in DOMAIN xs : xs[k] = x /\ \A j \in 1..(k - 1) : xs[j] # x) - 1
    ELSE -1

\* [F(x) for x in xs]
Map(xs, F(_)) == [k \in DOMAIN xs |-> F(xs[k])]

Max(S) == CHOOSE m \in S : \A n \in S : n <= m

(***************************************************************************)
(* jax.core values: abstract values, variables, literals, equations.       *)
(***************************************************************************)
ShapedArray(dtype, shape) == [dtype |-> dtype, shape |-> shape]

\* jax.core.Var(count, suffix, aval); the suffix is always the empty string
Var(count, aval) == [kind |-> "Var", count |-> count, aval |-> aval]

\* jax.core.Literal(val, aval)
Literal(val, aval) == [kind |-> "Literal", val |-> val, aval |-> aval]

IsLiteral(x) == x.kind = "Literal"

NoParams == [mark_type |-> "", name |-> ""]

new_jaxpr_eqn(invars, outvars, primitive, params) ==
    [invars |-> invars, outvars |-> outvars, primitive |-> primitive,
     params |-> params]

pipeline_p == "pipeline"
add_p == "add"
div_p == "div"
\* the primitive of the operations of the input programs: the sum of its operands
add_any_p == "add_any"

APPLY_GRAD_MARKER_SUFFIX == "apply_grad"

Jaxpr(constvars, invars, outvars, eqns) ==
    [constvars |-> constvars, invars |-> invars, outvars |-> outvars,
     eqns |-> eqns]

ClosedJaxpr(jaxpr, consts) == [jaxpr |-> jaxpr, consts |-> consts]

None == [kind |-> "None"]

(***************************************************************************)
(* The input programs: raw_jaxpr(opt_state, param, batch) ->               *)
(* [new_opt_state, new_param].  One variable per argument; each argument   *)
(* is read by the operations before the marker, after it, both or          *)
(* neither.  The operations before the marker compute a loss and one       *)
(* gradient per slot; the operations after it compute the two outputs.     *)
(***************************************************************************)
Uses == {"none", "compute", "apply", "both"}
Markers == {"none", "other", "grad", "grad2"}

F32 == "float32"

opt_state == Var(0, ShapedArray(F32, <<2>>))
param == Var(1, ShapedArray(F32, <<4>>))
batch == Var(2, ShapedArray("int32", <<4>>))
RawInvars == <<opt_state, param, batch>>
const_var == Var(3, ShapedArray(F32, <<>>))
loss_var == Var(4, ShapedArray(F32, <<>>))

GradAval == ShapedArray(F32, <<4>>)

\* gradient slot j as produced before the marker and as bound by the marker
OutGrad(j) == Var(4 + j, GradAval)
InGrad(ng, j) == Var(4 + ng + j, GradAval)

One == Literal(1, ShapedArray(F32, <<>>))

UsedBy(uses, what) ==
    SelectSeq(RawInvars,
              LAMBDA v : uses[Index(RawInvars, v) + 1] \in {what, "both"})

\* nout is the number of outputs of the marker (ng is the number of its
\* inputs); with passthrough the first output of the program is its first
\* input, handed on as it is
RawJaxprWith(uses, ng, nout, markers, passthrough) ==
    LET out_grads == [j \in 1..ng |-> OutGrad(j)]
        in_grads == IF markers = "none" THEN out_grads
                    ELSE [j \in 1..nout |-> InGrad(ng, j)]
        u == Var(5 + ng + nout, ShapedArray(F32, <<2>>))
        u2 == Var(6 + ng + nout, ShapedArray(F32, <<2>>))
        w == Var(7 + ng + nout, ShapedArray(F32, <<4>>))
        uu == IF markers = "grad2" THEN u2 ELSE u
        compute ==
            <<new_jaxpr_eqn(UsedBy(uses, "compute") \o <<const_var, One>>,
                            <<loss_var>>, add_any_p, NoParams)>>
            \o [j \in 1..ng |->
                   new_jaxpr_eqn(<<loss_var, Literal(j, ShapedArray(F32, <<>>))>>,
                                 <<OutGrad(j)>>, add_any_p, NoParams)]
        marker ==
            CASE markers = "none" -> <<>>
              [] markers = "other" ->
                   <<new_jaxpr_eqn(out_grads, in_grads, pipeline_p,
                                   [mark_type |-> "end", name |-> "layer"])>>
              [] OTHER ->
                   <<new_jaxpr_eqn(out_grads, in_grads, pipeline_p,
                                   [mark_type |-> "grad", name |-> "grad"])>>
        marker2 ==
            IF markers = "grad2"
            THEN <<new_jaxpr_eqn(<<u>>, <<u2>>, pipeline_p,
                                 [mark_type |-> "grad", name |-> "grad"])>>
            ELSE <<>>
        apply ==
            <<new_jaxpr_eqn(UsedBy(uses, "apply") \o in_grads, <<u>>,
                            add_any_p, NoParams)>>
            \o marker2
            \o <<new_jaxpr_eqn(<<uu, One>>, <<w>>, add_any_p, NoParams)>>
    IN  ClosedJaxpr(Jaxpr(<<const_var>>, RawInvars,
                          <<IF passthrough THEN opt_state ELSE uu, w>>,
                          compute \o marker \o apply),
                    <<7>>)

\* the traced programs: a marker has as many outputs as inputs
RawJaxpr(uses, ng, markers) == RawJaxprWith(uses, ng, ng, markers, FALSE)

RawJaxprs ==
    {RawJaxpr(uses, ng, markers) :
        uses \in [1..3 -> Uses], ng \in 0..MaxGrads, markers \in Markers}

(***************************************************************************)
(* The locals of one call of add_gradient_accumulation.                    *)
(***************************************************************************)
EmptyDict == [x \in {} |-> x]

NewFrame(raw_jaxpr, num_micro_batches) ==
    [raw_jaxpr |-> raw_jaxpr,
     num_micro_batches |-> num_micro_batches,
     global_invars |-> {},
     marker_eqn |-> None,
     marker_pos |-> 0,
     compute_grad_eqns |-> <<>>,
     apply_grad_eqns |-> <<>>,
     global_invar_substitute |-> EmptyDict,
     combined_eqns |-> <<>>,
     out_grad_vars |-> <<>>,
     old_grad_vars |-> <<>>,
     new_grad_vars |-> <<>>,
     num_grads |-> 0,
     old_invars |-> <<>>,
     new_invars |-> <<>>,
     accumulate_grad_invars |-> <<>>,
     inter_grad_vars |-> <<>>,
     in_grad_vars |-> <<>>,
     apply_grad_invars |-> <<>>,
     new_outvars |-> <<>>,
     combined_jaxpr |-> None,
     minted |-> <<>>,
     result |-> None]

\* what a step hands on: the locals, the gensym counter and the next step
Goto(next, f, c) == [pc |-> next, frame |-> f, counter |-> c]

(***************************************************************************)
(* jax.core.gensym([jaxpr]): a counter that starts above every variable    *)
(* of the jaxpr (its invars, constvars and equation outvars).              *)
(***************************************************************************)
JaxprVars(jaxpr) ==
    Range(jaxpr.invars) \cup Range(jaxpr.constvars)
        \cup UNION {Range(jaxpr.eqns[k].outvars) : k \in DOMAIN jaxpr.eqns}

\* gensym starting at the largest count in use, not above it
gensym_at_max(jaxpr) == Max({v.count : v \in JaxprVars(jaxpr)} \cup {-1})

gensym(jaxpr) == 1 + Max({v.count : v \in JaxprVars(jaxpr)} \cup {-1})

\* lines 343-344
seed(f, c) ==
    Goto("find_marker",
         [f EXCEPT !.global_invars = Range(f.raw_jaxpr.jaxpr.invars)],
         gensym(f.raw_jaxpr.jaxpr))

\* IsGradMarker without the test of mark_type
IsGradMarker_any(eqn) == eqn.primitive = pipeline_p

IsGradMarker(eqn) ==
    eqn.primitive = pipeline_p /\ eqn.params.mark_type = "grad"

\* lines 349-358
find_marker(f, c) ==
    LET eqns == f.raw_jaxpr.jaxpr.eqns
        found == {pos \in DOMAIN eqns : IsGradMarker(eqns[pos])}
    IN  IF found = {}
        THEN Goto("AssertionError", f, c)
        ELSE LET pos == CHOOSE p \in found : \A q \in found : p <= q
             IN  Goto("create_grad_vars",
                      [f EXCEPT !.marker_eqn = eqns[pos],
                                !.marker_pos = pos - 1,
                                !.compute_grad_eqns = SubSeq(eqns, 1, pos - 1),
                                !.apply_grad_eqns =
                                    SubSeq(eqns, pos + 1, Len(eqns))],
                      c)

\* filter_used_vars looking at what the equations bind, not at what they read
filter_used_vars_outvars(all_vars, eqns) ==
    LET used_vars ==
            UNION {{x \in Range(eqns[k].outvars) : ~IsLiteral(x)} :
                       k \in DOMAIN eqns}
    IN  SelectSeq(all_vars, LAMBDA var : var \in used_vars)

\* lines 301-309
filter_used_vars(all_vars, eqns) ==
    LET used_vars ==
            UNION {{x \in Range(eqns[k].invars) : ~IsLiteral(x)} :
                       k \in DOMAIN eqns}
    IN  SelectSeq(all_vars, LAMBDA var : var \in used_vars)

\* lines 312-314: gensym_func(x.aval) for each x, the counter being at c
clone_vars(var_list, c) ==
    [k \in DOMAIN var_list |-> Var(c + k - 1, var_list[k].aval)]

\* the calls of gensym_func made so far: the variable made and its model
Minted(f, var_list, clones) ==
    f.minted \o [k \in DOMAIN var_list |->
                    [var |-> clones[k], from |-> var_list[k]]]

\* dict.update(zip(keys, vals))
DictUpdate(d, keys, vals) ==
    [x \in DOMAIN d \cup Range(keys) |->
        IF x \in Range(keys)
        THEN vals[Max({k \in DOMAIN keys : keys[k] = x})]
        ELSE d[x]]

\* dict.get(x, x)
DictGet(d, x) == IF x \in DOMAIN d THEN d[x] ELSE x

\* lines 361-368
create_grad_vars(f, c) ==
    LET out_grad_vars == f.marker_eqn.invars
        n == Len(out_grad_vars)
        old_grad_vars == clone_vars(out_grad_vars, c)
        new_grad_vars == clone_vars(out_grad_vars, c + n)
        f1 == [f EXCEPT !.minted = Minted(f, out_grad_vars, old_grad_vars)]
    IN  Goto("wrap_accumulate_invars",
             [f EXCEPT !.global_invar_substitute = EmptyDict,
                       !.combined_eqns = <<>>,
                       !.out_grad_vars = out_grad_vars,
                       !.old_grad_vars = old_grad_vars,
                       !.new_grad_vars = new_grad_vars,
                       !.num_grads = n,
                       !.minted = Minted(f1, out_grad_vars, new_grad_vars)],
             c + 2 * n)

\* lines 370-380
wrap_accumulate_invars(f, c) ==
    LET old_invars == filter_used_vars(f.raw_jaxpr.jaxpr.invars,
                                       f.compute_grad_eqns) \o f.old_grad_vars
        new_invars == clone_vars(old_invars, c)
    IN  Goto("append_compute_grad",
             [f EXCEPT !.old_invars = old_invars,
                       !.new_invars = new_invars,
                       !.combined_eqns =
                           Append(@, new_jaxpr_eqn(new_invars, old_invars,
                                      pipeline_p,
                                      [mark_type |-> "start",
                                       name |-> "_accumulate_grad"])),
                       !.global_invar_substitute =
                           DictUpdate(@, old_invars, new_invars),
                       !.accumulate_grad_invars = new_invars,
                       !.minted = Minted(f, old_invars, new_invars)],
             c + Len(old_invars))

\* append_compute_grad with the slice one short: eqns[:marker_pos - 1]
append_compute_grad_short(f, c) ==
    Goto("append_accumulation",
         [f EXCEPT !.combined_eqns =
                       @ \o SubSeq(f.raw_jaxpr.jaxpr.eqns, 1, f.marker_pos - 1)],
         c)

\* line 383
append_compute_grad(f, c) ==
    Goto("append_accumulation",
         [f EXCEPT !.combined_eqns =
                       @ \o SubSeq(f.raw_jaxpr.jaxpr.eqns, 1, f.marker_pos)],
         c)

\* accumulation_eqn adding the gradient to itself
accumulation_eqn_self(f, i) ==
    new_jaxpr_eqn(<<f.out_grad_vars[i], f.out_grad_vars[i]>>,
                  <<f.new_grad_vars[i]>>, add_p, NoParams)

\* lines 385-389
accumulation_eqn(f, i) ==
    new_jaxpr_eqn(<<f.old_grad_vars[i], f.out_grad_vars[i]>>,
                  <<f.new_grad_vars[i]>>, add_p, NoParams)

append_accumulation(f, c) ==
    Goto("wrap_accumulate_outvars",
         [f EXCEPT !.combined_eqns =
                       @ \o [i \in 1..Len(f.out_grad_vars) |->
                                accumulation_eqn(f, i)]],
         c)

\* wrap_accumulate_outvars with the two lists of the marker exchanged
wrap_accumulate_outvars_swapped(f, c) ==
    LET inter_grad_vars == clone_vars(f.out_grad_vars, c)
    IN  Goto("wrap_apply_invars",
             [f EXCEPT !.inter_grad_vars = inter_grad_vars,
                       !.combined_eqns =
                           Append(@, new_jaxpr_eqn(inter_grad_vars,
                                      f.new_grad_vars, pipeline_p,
                                      [mark_type |-> "end",
                                       name |-> "_accumulate_grad"])),
                       !.minted = Minted(f, f.out_grad_vars, inter_grad_vars)],
             c + Len(f.out_grad_vars))

\* lines 391-397
wrap_accumulate_outvars(f, c) ==
    LET inter_grad_vars == clone_vars(f.out_grad_vars, c)
    IN  Goto("wrap_apply_invars",
             [f EXCEPT !.inter_grad_vars = inter_grad_vars,
                       !.combined_eqns =
                           Append(@, new_jaxpr_eqn(f.new_grad_vars,
                                      inter_grad_vars, pipeline_p,
                                      [mark_type |-> "end",
                                       name |-> "_accumulate_grad"])),
                       !.minted = Minted(f, f.out_grad_vars, inter_grad_vars)],
             c + Len(f.out_grad_vars))

\* the table never found to hold an input
has_substitute_never(a, var) == FALSE

\* line 406
has_substitute(a, var) == var \in DOMAIN a.global_invar_substitute

\* the slots counted from the last one
in_grad_slot_reversed(f, var) == Len(f.in_grad_vars) - Index(f.in_grad_vars, var)

\* line 413: in_grad_vars.index(var), as a position of inter_grad_vars
in_grad_slot(f, var) == Index(f.in_grad_vars, var) + 1

\* lines 403-413: the loop over old_invars, from position k on; a is the
\* state of the loop (new_invars, global_invar_substitute, counter, minted,
\* and whether inter_grad_vars[...] raised IndexError)
RECURSIVE rename_apply_invars(_, _, _)
rename_apply_invars(f, k, a) ==
    IF k > Len(f.old_invars) \/ a.raised THEN a
    ELSE
    LET var == f.old_invars[k]
    IN  IF var \in f.global_invars
        THEN IF has_substitute(a, var)
             THEN rename_apply_invars(f, k + 1,
                      [a EXCEPT !.new_invars =
                                    Append(@, a.global_invar_substitute[var])])
             ELSE LET new_var == Var(a.counter, var.aval)
                  IN  rename_apply_invars(f, k + 1,
                          [a EXCEPT
                              !.new_invars = Append(@, new_var),
                              !.global_invar_substitute =
                                  DictUpdate(@, <<var>>, <<new_var>>),
                              !.counter = @ + 1,
                              !.minted = Append(@, [var |-> new_var,
                                                    from |-> var])])
        ELSE IF in_grad_slot(f, var) \in DOMAIN f.inter_grad_vars
             THEN rename_apply_invars(f, k + 1,
                      [a EXCEPT !.new_invars =
                           Append(@, f.inter_grad_vars[in_grad_slot(f, var)])])
             ELSE [a EXCEPT !.raised = TRUE]

\* lines 399-419
wrap_apply_invars(f, c) ==
    LET in_grad_vars == f.marker_eqn.outvars
        old_invars == filter_used_vars(f.raw_jaxpr.jaxpr.invars,
                                       f.apply_grad_eqns) \o in_grad_vars
        f1 == [f EXCEPT !.in_grad_vars = in_grad_vars,
                        !.old_invars = old_invars]
        a == rename_apply_invars(f1, 1,
                 [new_invars |-> <<>>,
                  global_invar_substitute |-> f.global_invar_substitute,
                  counter |-> c,
                  minted |-> f.minted,
                  raised |-> FALSE])
        f2 == [f1 EXCEPT !.new_invars = a.new_invars,
                         !.global_invar_substitute = a.global_invar_substitute,
                         !.minted = a.minted]
    IN  IF a.raised
        THEN Goto("IndexError", f2, a.counter)
        ELSE Goto("append_reduction",
                  [f2 EXCEPT !.apply_grad_invars = a.new_invars,
                             !.combined_eqns =
                                 Append(@, new_jaxpr_eqn(a.new_invars, old_invars,
                                            pipeline_p,
                                            [mark_type |-> "start",
                                             name |-> APPLY_GRAD_MARKER_SUFFIX]))],
                  a.counter)

\* reduction_eqn without the micro batch count: the sum is left as it is
reduction_eqn_sum(f, i) ==
    LET tmp_var == f.old_invars[Len(f.old_invars) - i]
    IN  new_jaxpr_eqn(<<tmp_var, Literal(1, ShapedArray(tmp_var.aval.dtype, <<>>))>>,
                      <<tmp_var>>, div_p, NoParams)

\* lines 423-429, for the i of range(num_grads)
reduction_eqn(f, i) ==
    LET tmp_var == f.old_invars[Len(f.old_invars) - i]
        literal_val == f.num_micro_batches
    IN  new_jaxpr_eqn(<<tmp_var,
                        Literal(literal_val,
                                ShapedArray(tmp_var.aval.dtype, <<>>))>>,
                      <<tmp_var>>, div_p, NoParams)

\* lines 421-429; old_invars[-(i + 1)] raises IndexError beyond the list
append_reduction(f, c) ==
    IF f.num_grads > Len(f.old_invars)
    THEN Goto("IndexError",
              [f EXCEPT !.combined_eqns =
                            @ \o [k \in 1..Len(f.old_invars) |->
                                     reduction_eqn(f, k - 1)]],
              c)
    ELSE Goto("append_apply_grad",
              [f EXCEPT !.combined_eqns =
                            @ \o [k \in 1..f.num_grads |->
                                     reduction_eqn(f, k - 1)]],
              c)

\* append_apply_grad putting the operations before the divisions
append_apply_grad_first(f, c) ==
    LET n == Len(f.combined_eqns) - f.num_grads
    IN  Goto("wrap_apply_outvars",
             [f EXCEPT !.combined_eqns =
                           SubSeq(@, 1, n) \o f.apply_grad_eqns
                               \o SubSeq(@, n + 1, Len(@))],
             c)

\* line 436
append_apply_grad(f, c) ==
    Goto("wrap_apply_outvars",
         [f EXCEPT !.combined_eqns = @ \o f.apply_grad_eqns], c)

\* wrap_apply_outvars with the two lists of the marker exchanged
wrap_apply_outvars_swapped(f, c) ==
    LET old_outvars == f.raw_jaxpr.jaxpr.outvars
        new_outvars == clone_vars(old_outvars, c)
    IN  Goto("make_jaxpr",
             [f EXCEPT !.new_outvars = new_outvars,
                       !.combined_eqns =
                           Append(@, new_jaxpr_eqn(new_outvars, old_outvars,
                                      pipeline_p,
                                      [mark_type |-> "end",
                                       name |-> APPLY_GRAD_MARKER_SUFFIX])),
                       !.minted = Minted(f, old_outvars, new_outvars)],
             c + Len(old_outvars))

\* lines 444-451
wrap_apply_outvars(f, c) ==
    LET old_outvars == f.raw_jaxpr.jaxpr.outvars
        new_outvars == clone_vars(old_outvars, c)
    IN  Goto("make_jaxpr",
             [f EXCEPT !.new_outvars = new_outvars,
                       !.combined_eqns =
                           Append(@, new_jaxpr_eqn(old_outvars, new_outvars,
                                      pipeline_p,
                                      [mark_type |-> "end",
                                       name |-> APPLY_GRAD_MARKER_SUFFIX])),
                       !.minted = Minted(f, old_outvars, new_outvars)],
             c + Len(old_outvars))

\* make_jaxpr without the substitution of the inputs
make_jaxpr_raw(f, c) ==
    Goto("invar_indices",
         [f EXCEPT !.combined_jaxpr =
              ClosedJaxpr(
                  Jaxpr(f.raw_jaxpr.jaxpr.constvars,
                        f.raw_jaxpr.jaxpr.invars \o f.old_grad_vars,
                        f.new_outvars, f.combined_eqns),
                  f.raw_jaxpr.consts)],
         c)

\* lines 453-458
make_jaxpr(f, c) ==
    Goto("invar_indices",
         [f EXCEPT !.combined_jaxpr =
              ClosedJaxpr(
                  Jaxpr(f.raw_jaxpr.jaxpr.constvars,
                        Map(f.raw_jaxpr.jaxpr.invars \o f.old_grad_vars,
                            LAMBDA x : DictGet(f.global_invar_substitute, x)),
                        f.new_outvars, f.combined_eqns),
                  f.raw_jaxpr.consts)],
         c)

\* lines 460-471
invar_indices(f, c) ==
    LET invars == f.combined_jaxpr.jaxpr.invars
    IN  Goto("returned",
             [f EXCEPT !.result =
                  [combined_jaxpr |-> f.combined_jaxpr,
                   accumulate_grad_invar_indices |->
                       Map(SliceToNeg(f.accumulate_grad_invars, f.num_grads),
                           LAMBDA var : Index(invars, var)),
                   apply_grad_invar_indices |->
                       Map(SliceToNeg(f.apply_grad_invars, f.num_grads),
                           LAMBDA var : Index(invars, var)),
                   num_grads |-> f.num_grads]],
             c)

(***************************************************************************)
(* add_gradient_accumulation(raw_jaxpr, num_micro_batches) run from its    *)
(* first line to its return or its failed assertion, nothing else running. *)
(***************************************************************************)
StepAt(at, f, c) ==
    CASE at = "seed" -> seed(f, c)
      [] at = "find_marker" -> find_marker(f, c)
      [] at = "create_grad_vars" -> create_grad_vars(f, c)
      [] at = "wrap_accumulate_invars" -> wrap_accumulate_invars(f, c)
      [] at = "append_compute_grad" -> append_compute_grad(f, c)
      [] at = "append_accumulation" -> append_accumulation(f, c)
      [] at = "wrap_accumulate_outvars" -> wrap_accumulate_outvars(f, c)
      [] at = "wrap_apply_invars" -> wrap_apply_invars(f, c)
      [] at = "append_reduction" -> append_reduction(f, c)
      [] at = "append_apply_grad" -> append_apply_grad(f, c)
      [] at = "wrap_apply_outvars" -> wrap_apply_outvars(f, c)
      [] at = "make_jaxpr" -> make_jaxpr(f, c)
      [] at = "invar_indices" -> invar_indices(f, c)

Ended(at) == at \in {"returned", "AssertionError", "IndexError"}

RECURSIVE RunFrom(_)
RunFrom(s) ==
    IF Ended(s.pc) THEN s ELSE RunFrom(StepAt(s.pc, s.frame, s.counter))

add_gradient_accumulation(raw_jaxpr, num_micro_batches) ==
    RunFrom(Goto("seed", NewFrame(raw_jaxpr, num_micro_batches), 0))

(***************************************************************************)
(* The calls.                                                              *)
(***************************************************************************)
\* every call using the gensym closure of the first call
GensymOf_shared(i) == 1

\* the gensym closure a call uses is the one it created itself (line 344)
GensymOf(i) == i

Do(i, step(_, _)) ==
    LET r == step(frame[i], gensym_func[GensymOf(i)])
    IN  /\ pc' = [pc EXCEPT ![i] = r.pc]
        /\ frame' = [frame EXCEPT ![i] = r.frame]
        /\ gensym_func' = [gensym_func EXCEPT ![GensymOf(i)] = r.counter]
        /\ UNCHANGED <<run, compile>>

Seed(i) == pc[i] = "seed" /\ Do(i, seed)

FindMarker(i) == pc[i] = "find_marker" /\ Do(i, find_marker)

CreateGradVars(i) == pc[i] = "create_grad_vars" /\ Do(i, create_grad_vars)

WrapAccumulateInvars(i) ==
    pc[i] = "wrap_accumulate_invars" /\ Do(i, wrap_accumulate_invars)

AppendComputeGrad(i) ==
    pc[i] = "append_compute_grad" /\ Do(i, append_compute_grad)

AppendAccumulation(i) ==
    pc[i] = "append_accumulation" /\ Do(i, append_accumulation)

WrapAccumulateOutvars(i) ==
    pc[i] = "wrap_accumulate_outvars" /\ Do(i, wrap_accumulate_outvars)

WrapApplyInvars(i) == pc[i] = "wrap_apply_invars" /\ Do(i, wrap_apply_invars)

AppendReduction(i) == pc[i] = "append_reduction" /\ Do(i, append_reduction)

AppendApplyGrad(i) == pc[i] = "append_apply_grad" /\ Do(i, append_apply_grad)

WrapApplyOutvars(i) ==
    pc[i] = "wrap_apply_outvars" /\ Do(i, wrap_apply_outvars)

MakeJaxpr(i) == pc[i] = "make_jaxpr" /\ Do(i, make_jaxpr)

InvarIndices(i) == pc[i] = "invar_indices" /\ Do(i, invar_indices)

Rewrite(i) ==
    \/ Seed(i)
    \/ FindMarker(i)
    \/ CreateGradVars(i)
    \/ WrapAccumulateInvars(i)
    \/ AppendComputeGrad(i)
    \/ AppendAccumulation(i)
    \/ WrapAccumulateOutvars(i)
    \/ WrapApplyInvars(i)
    \/ AppendReduction(i)
    \/ AppendApplyGrad(i)
    \/ WrapApplyOutvars(i)
    \/ MakeJaxpr(i)
    \/ InvarIndices(i)

(***************************************************************************)
(* Running the combined program: the accumulate-grad region once per       *)
(* micro batch, on the accumulators of the run before, then the apply-grad *)
(* region once.                                                            *)
(***************************************************************************)
RECURSIVE Sum(_)
Sum(xs) == IF xs = <<>> THEN 0 ELSE xs[1] + Sum(Tail(xs))

Value(x, env) == IF IsLiteral(x) THEN x.val ELSE env[x]

\* the values an equation binds its outvars to
Eval(eqn, vals) ==
    CASE eqn.primitive = pipeline_p -> vals
      [] eqn.primitive = add_p -> <<vals[1] + vals[2]>>
      [] eqn.primitive = div_p -> <<vals[1] \div vals[2]>>
      [] eqn.primitive = add_any_p -> <<Sum(vals)>>

\* the equations from position k on, in order; reads keeps what each one read
RECURSIVE Exec(_, _, _, _)
Exec(eqns, k, env, reads) ==
    IF k > Len(eqns) THEN [env |-> env, reads |-> reads]
    ELSE LET eqn == eqns[k]
             vals == Map(eqn.invars, LAMBDA x : Value(x, env))
         IN  Exec(eqns, k + 1, DictUpdate(env, eqn.outvars, Eval(eqn, vals)),
                  Append(reads, [eqn |-> eqn, vals |-> vals]))

IsMarker(eqn, mark_type, name) ==
    /\ eqn.primitive = pipeline_p
    /\ eqn.params.mark_type = mark_type
    /\ eqn.params.name = name

\* the equations of the region of that name, its two markers included
Region(eqns, name) ==
    LET first == CHOOSE k \in DOMAIN eqns : IsMarker(eqns[k], "start", name)
        last == CHOOSE k \in DOMAIN eqns : IsMarker(eqns[k], "end", name)
    IN  SubSeq(eqns, first, last)

\* the arguments of one micro batch: opt_state, param and the batch
Args(b) == <<3, 5, b>>

\* lines 230 and 232
InVars(res) == SliceToNeg(res.combined_jaxpr.jaxpr.invars, res.num_grads)
GradVars(res) == SliceFromNeg(res.combined_jaxpr.jaxpr.invars, res.num_grads)

ConstEnv(closed) == DictUpdate(EmptyDict, closed.jaxpr.constvars, closed.consts)

\* the gradients the input program computes on one micro batch: the values
\* of the inputs of its grad marker
RawGrads(f, b) ==
    LET raw == f.raw_jaxpr
        r == Exec(f.compute_grad_eqns, 1,
                  DictUpdate(ConstEnv(raw), raw.jaxpr.invars, Args(b)), <<>>)
    IN  Map(f.marker_eqn.invars, LAMBDA x : Value(x, r.env))

CanRun(i) ==
    /\ pc[i] = "returned"
    /\ ~run[i].done
    /\ Len(InVars(frame[i].result)) = Len(frame[i].raw_jaxpr.jaxpr.invars)

RunAccumulateGrad(i) ==
    /\ CanRun(i)
    /\ run[i].micro < frame[i].num_micro_batches
    /\ \E b \in 0..MaxBatchVal :
         LET res == frame[i].result
             closed == res.combined_jaxpr
             region == Region(closed.jaxpr.eqns, "_accumulate_grad")
             acc == IF run[i].micro = 0
                    THEN [k \in 1..res.num_grads |-> 0]
                    ELSE run[i].acc
             env == DictUpdate(DictUpdate(ConstEnv(closed), InVars(res), Args(b)),
                               GradVars(res), acc)
             r == Exec(region, 1, env, <<>>)
         IN  run' = [run EXCEPT ![i] =
                        [@ EXCEPT !.micro = @ + 1,
                                  !.batch = b,
                                  !.acc = Map(region[Len(region)].outvars,
                                              LAMBDA x : Value(x, r.env)),
                                  !.grads = Append(@, RawGrads(frame[i], b))]]
    /\ UNCHANGED <<pc, frame, gensym_func, compile>>

RunApplyGrad(i) ==
    /\ CanRun(i)
    /\ run[i].micro = frame[i].num_micro_batches
    /\ LET res == frame[i].result
           closed == res.combined_jaxpr
           eqns == closed.jaxpr.eqns
           accumulate == Region(eqns, "_accumulate_grad")
           env == DictUpdate(DictUpdate(ConstEnv(closed), InVars(res),
                                        Args(run[i].batch)),
                             accumulate[Len(accumulate)].outvars, run[i].acc)
           r == Exec(Region(eqns, APPLY_GRAD_MARKER_SUFFIX), 1, env, <<>>)
       IN  run' = [run EXCEPT ![i] =
                      [@ EXCEPT !.done = TRUE, !.reads = r.reads]]
    /\ UNCHANGED <<pc, frame, gensym_func, compile>>

NewRun == [micro |-> 0, batch |-> 0, acc |-> <<>>, grads |-> <<>>,
           reads |-> <<>>, done |-> FALSE]

(***************************************************************************)
(* shard_parallel_callable and the two functions it calls.                 *)
(***************************************************************************)
DeviceKinds == {"None", "list", "DeviceCluster", "PhysicalDeviceMesh",
                "LogicalDeviceMesh", "other"}

LogicalMesh(mesh_shape) == [mesh_shape |-> mesh_shape]

\* num_micro_batches = 0 stands for global_config.num_micro_batches being None
NewCompile(devices, num_devices, search, record_file, num_micro_batches) ==
    [at |-> "shard_parallel_callable",
     devices |-> devices,
     num_devices |-> num_devices,
     shard_parallel_search_logical_mesh_shape |-> search,
     record_file |-> record_file,
     num_micro_batches |-> num_micro_batches,
     logical_mesh_choices |-> <<>>,
     strategy_config |-> "None",
     closed_jaxpr |-> None,
     passes |-> <<>>,
     hlo_module |-> FALSE,
     executable |-> "None",
     error |-> "None"]

NoCompile == NewCompile("None", 1, FALSE, FALSE, 0)

Raise(error) == [compile EXCEPT !.at = "raised", !.error = error]

\* lines 95-109: the shapes of the search space, for i in range(1, num_devices)
RECURSIVE MeshShapes(_, _)
MeshShapes(num_devices, i) ==
    IF i >= num_devices THEN <<>>
    ELSE (IF num_devices % i = 0
          THEN <<LogicalMesh(<<num_devices \div i, i>>)>>
          ELSE <<>>)
         \o MeshShapes(num_devices, i + 1)

\* lines 67-134
ShardParallelCallable ==
    /\ compile.at = "shard_parallel_callable"
    /\ \E inp \in {"None", "cached"} :
         LET c == compile
             physical == c.devices \in {"None", "list", "DeviceCluster",
                                        "PhysicalDeviceMesh"}
             loaded == IF c.record_file THEN inp ELSE "None"
             choices ==
                 IF physical
                 THEN IF c.shard_parallel_search_logical_mesh_shape
                      THEN IF loaded = "None"
                           THEN MeshShapes(c.num_devices, 1)
                           ELSE <<>>
                      ELSE <<LogicalMesh(<<1, c.num_devices>>)>>
                 ELSE <<LogicalMesh(<<1, c.num_devices>>)>>
             strategy_config ==
                 IF physical /\ c.shard_parallel_search_logical_mesh_shape
                 THEN loaded ELSE "None"
         IN  IF ~physical /\ c.devices # "LogicalDeviceMesh"
             THEN compile' = Raise("ValueError")
             ELSE compile' =
                      [c EXCEPT !.logical_mesh_choices = choices,
                                !.strategy_config = strategy_config,
                                !.at = IF c.num_micro_batches # 0
                                       THEN "grad_acc_trace"
                                       ELSE "internal_trace"]
    /\ UNCHANGED <<pc, frame, gensym_func, run>>

\* lines 170-181
InternalTrace ==
    /\ compile.at = "internal_trace"
    /\ compile' = [compile EXCEPT
                      !.passes = @ \o <<"trace_to_jaxpr_final",
                                        "jaxpr_to_hlo_computation">>,
                      !.at = "internal_auto_sharding"]
    /\ UNCHANGED <<pc, frame, gensym_func, run>>

\* lines 183-196; 'assert NotImplementedError' asserts a class, which is true
InternalAutoSharding ==
    /\ compile.at = "internal_auto_sharding"
    /\ compile' =
           IF compile.strategy_config = "None"
           THEN IF compile.logical_mesh_choices = <<>>
                THEN Raise("IndexError")
                ELSE [compile EXCEPT
                         !.passes = Append(@, "run_auto_sharding_pass"),
                         !.hlo_module = TRUE,
                         !.strategy_config = "auto",
                         !.at = "internal_executable"]
           ELSE [compile EXCEPT !.at = "internal_executable"]
    /\ UNCHANGED <<pc, frame, gensym_func, run>>

\* lines 198-211; hlo_module is read, bound or not
InternalExecutable ==
    /\ compile.at = "internal_executable"
    /\ compile' =
           IF ~compile.hlo_module
           THEN Raise("UnboundLocalError")
           ELSE [compile EXCEPT !.executable = "NormalMeshDriverExecutable",
                                !.at = "returned"]
    /\ UNCHANGED <<pc, frame, gensym_func, run>>

\* the programs of the calls that run side by side, and of the compilations
FewUses ==
    {[k \in 1..3 |-> <<"both", "both", "compute">>[k]],
     [k \in 1..3 |-> <<"apply", "both", "compute">>[k]]}

FewJaxprs ==
    {RawJaxpr(uses, ng, markers) :
        uses \in FewUses, ng \in 0..MaxGrads, markers \in {"other", "grad"}}

\* lines 224-226
GradAccTrace ==
    /\ compile.at = "grad_acc_trace"
    /\ \E raw \in FewJaxprs :
           compile' = [compile EXCEPT
                          !.closed_jaxpr = raw,
                          !.passes = Append(@, "trace_jaxpr_with_micro_batch"),
                          !.at = "grad_acc_rewrite"]
    /\ UNCHANGED <<pc, frame, gensym_func, run>>

\* lines 228-232
GradAccRewrite ==
    /\ compile.at = "grad_acc_rewrite"
    /\ LET r == add_gradient_accumulation(compile.closed_jaxpr,
                                          compile.num_micro_batches)
       IN  /\ pc' = [i \in {1} |-> r.pc]
           /\ frame' = [i \in {1} |-> r.frame]
           /\ gensym_func' = [i \in {1} |-> r.counter]
           /\ run' = [i \in {1} |-> NewRun]
           /\ compile' =
                  IF r.pc # "returned"
                  THEN Raise(r.pc)
                  ELSE [compile EXCEPT
                           !.closed_jaxpr = r.frame.result.combined_jaxpr,
                           !.passes = Append(@, "add_gradient_accumulation"),
                           !.at = "grad_acc_auto_sharding"]

\* lines 235-261; logical_mesh_choices[0] is evaluated before the pass is called
GradAccAutoSharding ==
    /\ compile.at = "grad_acc_auto_sharding"
    /\ compile' =
           IF compile.logical_mesh_choices = <<>>
           THEN [Raise("IndexError") EXCEPT
                    !.passes = Append(@, "jaxpr_to_hlo_computation")]
           ELSE [compile EXCEPT
                    !.passes = @ \o <<"jaxpr_to_hlo_computation",
                                      "run_auto_sharding_pass">>,
                    !.hlo_module = TRUE,
                    !.strategy_config = "auto",
                    !.at = "grad_acc_executable"]
    /\ UNCHANGED <<pc, frame, gensym_func, run>>

\* lines 263-298
GradAccExecutable ==
    /\ compile.at = "grad_acc_executable"
    /\ compile' = [compile EXCEPT
                      !.passes = @ \o <<"run_spmd_partitioner_pass",
                                        "run_spmd_partitioner_pass">>,
                      !.executable = "GradAccMeshDriverExecutable",
                      !.at = "returned"]
    /\ UNCHANGED <<pc, frame, gensym_func, run>>

(***************************************************************************)
(* One call of add_gradient_accumulation, followed by runs of its result.  *)
(***************************************************************************)
Init ==
    /\ pc = [i \in {1} |-> "seed"]
    /\ \E raw \in RawJaxprs, m \in 1..MaxMicroBatches :
           frame = [i \in {1} |-> NewFrame(raw, m)]
    /\ gensym_func = [i \in {1} |-> 0]
    /\ run = [i \in {1} |-> NewRun]
    /\ compile = NoCompile

Next ==
    \E i \in DOMAIN pc :
        \/ Rewrite(i)
        \/ RunAccumulateGrad(i)
        \/ RunApplyGrad(i)

Spec == Init /\ [][Next]_vars

(***************************************************************************)
(* Two calls of add_gradient_accumulation on programs of their own, their  *)
(* steps interleaved.                                                      *)
(***************************************************************************)
InitConcurrent ==
    /\ pc = [i \in {1, 2} |-> "seed"]
    /\ \E raw1 \in FewJaxprs, raw2 \in FewJaxprs, m \in 1..MaxMicroBatches :
           frame = [i \in {1, 2} |->
                       NewFrame(IF i = 1 THEN raw1 ELSE raw2, m)]
    /\ gensym_func = [i \in {1, 2} |-> 0]
    /\ run = [i \in {1, 2} |-> NewRun]
    /\ compile = NoCompile

NextConcurrent == \E i \in DOMAIN pc : Rewrite(i)

SpecConcurrent == InitConcurrent /\ [][NextConcurrent]_vars

(***************************************************************************)
(* One call of add_gradient_accumulation on any program with a grad        *)
(* marker: the marker may have more or fewer outputs than inputs, and an   *)
(* output of the program may be one of its inputs.                         *)
(***************************************************************************)
AnyJaxprs ==
    {RawJaxprWith(uses, ng, nout, markers, passthrough) :
        uses \in [1..3 -> Uses], ng \in 0..MaxGrads, nout \in 0..MaxGrads,
        markers \in {"grad", "grad2"}, passthrough \in BOOLEAN}

InitAny ==
    /\ pc = [i \in {1} |-> "seed"]
    /\ \E raw \in AnyJaxprs :
           frame = [i \in {1} |-> NewFrame(raw, MaxMicroBatches)]
    /\ gensym_func = [i \in {1} |-> 0]
    /\ run = [i \in {1} |-> NewRun]
    /\ compile = NoCompile

NextAny == \E i \in DOMAIN pc : Rewrite(i)

SpecAny == InitAny /\ [][NextAny]_vars

(***************************************************************************)
(* One call of shard_parallel_callable.                                    *)
(***************************************************************************)
InitCompile ==
    /\ pc = <<>>
    /\ frame = <<>>
    /\ gensym_func = <<>>
    /\ run = <<>>
    /\ \E devices \in DeviceKinds, num_devices \in 1..MaxDevices,
          search \in BOOLEAN, record_file \in BOOLEAN,
          num_micro_batches \in 0..MaxMicroBatches :
           compile = NewCompile(devices, num_devices, search, record_file,
                                num_micro_batches)

NextCompile ==
    \/ ShardParallelCallable
    \/ InternalTrace
    \/ InternalAutoSharding
    \/ InternalExecutable
    \/ GradAccTrace
    \/ GradAccRewrite
    \/ GradAccAutoSharding
    \/ GradAccExecutable

SpecCompile == InitCompile /\ [][NextCompile]_vars

(***************************************************************************)
(* Properties.                                                             *)
(***************************************************************************)
Calls == DOMAIN pc

RawEqns(i) == frame[i].raw_jaxpr.jaxpr.eqns

\* the positions of the boundary markers of mark_type 'grad'
GradMarkers(eqns) ==
    {k \in DOMAIN eqns :
        eqns[k].primitive = pipeline_p /\ eqns[k].params.mark_type = "grad"}

CombinedEqns(i) == frame[i].result.combined_jaxpr.jaxpr.eqns

CombinedInvars(i) == frame[i].result.combined_jaxpr.jaxpr.invars

Positions(eqns, eqn) == {k \in DOMAIN eqns : eqns[k] = eqn}

MarkerPositions(eqns, mark_type, name) ==
    {k \in DOMAIN eqns : IsMarker(eqns[k], mark_type, name)}

\* the one position of an equation that occurs once
Pos(eqns, eqn) == CHOOSE k \in DOMAIN eqns : eqns[k] = eqn

\* C1: with exactly one grad marker at position p, the combined operation
\* list holds every operation before p once, in order, strictly between the
\* two '_accumulate_grad' markers, and every operation after p once, in
\* order, strictly between the two apply-grad markers.
C1_OperationsKept ==
    \A i \in Calls :
        (pc[i] = "returned" /\ Cardinality(GradMarkers(RawEqns(i))) = 1) =>
        LET raw == RawEqns(i)
            eqns == CombinedEqns(i)
            p == CHOOSE k \in GradMarkers(raw) : TRUE
            acc_start == MarkerPositions(eqns, "start", "_accumulate_grad")
            acc_end == MarkerPositions(eqns, "end", "_accumulate_grad")
            app_start == MarkerPositions(eqns, "start", APPLY_GRAD_MARKER_SUFFIX)
            app_end == MarkerPositions(eqns, "end", APPLY_GRAD_MARKER_SUFFIX)
            Between(k, lo, hi) == \A a \in lo, b \in hi : a < k /\ k < b
        IN  /\ \A S \in {acc_start, acc_end, app_start, app_end} :
                   Cardinality(S) = 1
            /\ \A k \in DOMAIN raw \ {p} :
                   /\ Cardinality(Positions(eqns, raw[k])) = 1
                   /\ IF k < p
                      THEN Between(Pos(eqns, raw[k]), acc_start, acc_end)
                      ELSE Between(Pos(eqns, raw[k]), app_start, app_end)
            /\ \A k1, k2 \in DOMAIN raw \ {p} :
                   k1 < k2 => Pos(eqns, raw[k1]) < Pos(eqns, raw[k2])

C1_Witness ==
    \E i \in Calls :
        /\ pc[i] = "returned"
        /\ Cardinality(GradMarkers(RawEqns(i))) = 1
        /\ frame[i].marker_pos >= 2
        /\ Len(RawEqns(i)) >= frame[i].marker_pos + 3
        /\ Len(CombinedEqns(i)) > Len(RawEqns(i))

\* the sum over the micro batches of the gradients of slot j
RECURSIVE SlotSum(_, _)
SlotSum(grads, j) ==
    IF grads = <<>> THEN 0 ELSE grads[1][j] + SlotSum(Tail(grads), j)

\* C2: after M runs of the accumulate-grad region from a zero accumulator
\* and one run of the apply-grad region, every operation of the input
\* program that reads gradient slot j reads (g_1[j] + ... + g_M[j]) / M,
\* wherever M divides the sum.
C2_MeanGradient ==
    \A i \in Calls :
        run[i].done =>
        \A j \in 1..frame[i].num_grads :
            LET M == frame[i].num_micro_batches
                total == SlotSum(run[i].grads, j)
                reads == run[i].reads
            IN  /\ Len(run[i].grads) = M
                /\ \A k \in DOMAIN reads :
                       reads[k].eqn \in Range(frame[i].apply_grad_eqns) =>
                       \A q \in DOMAIN reads[k].eqn.invars :
                           (/\ reads[k].eqn.invars[q] = frame[i].marker_eqn.outvars[j]
                            /\ total % M = 0)
                           => reads[k].vals[q] * M = total

C2_Witness ==
    \E i \in Calls :
        /\ run[i].done
        /\ frame[i].num_micro_batches >= 2
        /\ frame[i].num_grads >= 2
        /\ run[i].grads[1] # run[i].grads[2]
        /\ \A j \in 1..frame[i].num_grads :
               /\ SlotSum(run[i].grads, j) % frame[i].num_micro_batches = 0
               /\ SlotSum(run[i].grads, j) > 0
               /\ \E k \in DOMAIN run[i].reads :
                      /\ run[i].reads[k].eqn \in Range(frame[i].apply_grad_eqns)
                      /\ frame[i].marker_eqn.outvars[j]
                             \in Range(run[i].reads[k].eqn.invars)

NoGradMarker(i) == GradMarkers(RawEqns(i)) = {}

NothingBuilt(i) ==
    /\ frame[i].result = None
    /\ frame[i].combined_jaxpr = None
    /\ frame[i].combined_eqns = <<>>

\* C3: a program without a grad marker makes the call end in its assertion
\* error, with no combined program, no index lists and no operation built,
\* and no step of the call changes the input program.
C3_MissingMarkerFails ==
    /\ [](\A i \in Calls :
             (NoGradMarker(i) /\ pc[i] \notin {"seed", "find_marker"}) =>
             (pc[i] = "AssertionError" /\ NothingBuilt(i)))
    /\ [][\A i \in Calls :
             NoGradMarker(i) => frame'[i].raw_jaxpr = frame[i].raw_jaxpr]_vars

C3_Witness ==
    \E i \in Calls :
        /\ pc[i] = "AssertionError"
        /\ \E k \in DOMAIN RawEqns(i) : RawEqns(i)[k].primitive = pipeline_p

\* C4 (as claimed): a program with more than one grad marker makes the call
\* end in its assertion error, with no combined program.
C4_SeveralMarkersFail ==
    \A i \in Calls :
        (Cardinality(GradMarkers(RawEqns(i))) > 1
            /\ pc[i] \notin {"seed", "find_marker"}) =>
        (pc[i] = "AssertionError" /\ frame[i].result = None)

HasResult(i) == pc[i] = "returned"

RawInvarsOf(i) == frame[i].raw_jaxpr.jaxpr.invars

\* the first entries of the combined inputs: the inputs of the program,
\* each replaced by its entry of the substitution table if it has one
InputsSubstituted(i) ==
    /\ Len(CombinedInvars(i)) = Len(RawInvarsOf(i)) + frame[i].num_grads
    /\ \A k \in DOMAIN RawInvarsOf(i) :
           CombinedInvars(i)[k] =
               IF RawInvarsOf(i)[k] \in DOMAIN frame[i].global_invar_substitute
               THEN frame[i].global_invar_substitute[RawInvarsOf(i)[k]]
               ELSE RawInvarsOf(i)[k]

\* C5 (as claimed): the combined inputs are the substituted inputs of the
\* program followed by oldGradVars themselves, the first operands of the
\* accumulation adds.
C5_InputsEndWithOldGradVars ==
    \A i \in Calls :
        HasResult(i) =>
        /\ InputsSubstituted(i)
        /\ \A j \in 1..frame[i].num_grads :
               /\ CombinedInvars(i)[Len(RawInvarsOf(i)) + j] = frame[i].old_grad_vars[j]
               /\ \E k \in DOMAIN CombinedEqns(i) :
                      /\ CombinedEqns(i)[k].primitive = add_p
                      /\ CombinedEqns(i)[k].invars[1] = frame[i].old_grad_vars[j]

\* C5 (amended): the combined inputs are the substituted inputs of the
\* program followed by the fresh copies of oldGradVars: the last numGradVars
\* inputs of the '_accumulate_grad' start marker, which that marker binds to
\* oldGradVars, the first operands of the accumulation adds.
C5_InputsEndWithRenamedOldGradVars ==
    \A i \in Calls :
        HasResult(i) =>
        LET n == Len(RawInvarsOf(i))
            start == CombinedEqns(i)[1]
            used == Len(start.invars) - frame[i].num_grads
        IN  /\ InputsSubstituted(i)
            /\ IsMarker(start, "start", "_accumulate_grad")
            /\ \A j \in 1..frame[i].num_grads :
                   /\ CombinedInvars(i)[n + j] = start.invars[used + j]
                   /\ CombinedInvars(i)[n + j] # frame[i].old_grad_vars[j]
                   /\ start.outvars[used + j] = frame[i].old_grad_vars[j]
                   /\ \E k \in DOMAIN CombinedEqns(i) :
                          /\ CombinedEqns(i)[k].primitive = add_p
                          /\ CombinedEqns(i)[k].invars[1] = frame[i].old_grad_vars[j]

C5_Witness ==
    \E i \in Calls :
        /\ HasResult(i)
        /\ frame[i].num_grads >= 2
        /\ \E k \in DOMAIN RawInvarsOf(i) : CombinedInvars(i)[k] = RawInvarsOf(i)[k]
        /\ \E k \in DOMAIN RawInvarsOf(i) : CombinedInvars(i)[k] # RawInvarsOf(i)[k]

\* the index list of a start marker: one entry for each of its inputs but
\* the last num_grads, each the position of that input in the combined inputs
IndicesOf(i, indices, name) ==
    LET eqns == CombinedEqns(i)
        start == eqns[CHOOSE k \in DOMAIN eqns : IsMarker(eqns[k], "start", name)]
    IN  /\ Len(indices) = Len(start.invars) - frame[i].num_grads
        /\ \A k \in DOMAIN indices :
               /\ indices[k] + 1 \in DOMAIN CombinedInvars(i)
               /\ CombinedInvars(i)[indices[k] + 1] = start.invars[k]

\* C6 (as claimed): for every number of gradients, 0 included, each index
\* list has one entry for each input of its start marker but the trailing
\* num_grads ones, in order, each the position in the combined inputs.
C6_InvarIndices ==
    \A i \in Calls :
        HasResult(i) =>
        /\ IndicesOf(i, frame[i].result.accumulate_grad_invar_indices,
                     "_accumulate_grad")
        /\ IndicesOf(i, frame[i].result.apply_grad_invar_indices,
                     APPLY_GRAD_MARKER_SUFFIX)

ReadBy(var, eqns) ==
    \E k \in DOMAIN eqns : \E q \in DOMAIN eqns[k].invars :
        ~IsLiteral(eqns[k].invars[q]) /\ eqns[k].invars[q] = var

\* r holds the candidates some equation reads, and only them, in the order
\* of the candidates
IsUsedSubsequence(r, candidates, eqns) ==
    /\ \A k \in DOMAIN r : r[k] \in Range(candidates) /\ ReadBy(r[k], eqns)
    /\ \A var \in Range(candidates) : ReadBy(var, eqns) => var \in Range(r)
    /\ \A a, b \in DOMAIN r :
           a < b => Index(candidates, r[a]) < Index(candidates, r[b])

\* what filter_used_vars returned: old_invars without what was appended to it
Filtered(i, appended) ==
    SubSeq(frame[i].old_invars, 1, Len(frame[i].old_invars) - Len(appended))

\* C7: filter_used_vars returns the candidates that are a non-literal input
\* of some operation, in the order of the candidates, and nothing else.
C7_FilterUsedVars ==
    \A i \in Calls :
        /\ pc[i] = "append_compute_grad" =>
               IsUsedSubsequence(Filtered(i, frame[i].old_grad_vars),
                                 RawInvarsOf(i), frame[i].compute_grad_eqns)
        /\ pc[i] = "append_reduction" =>
               IsUsedSubsequence(Filtered(i, frame[i].in_grad_vars),
                                 RawInvarsOf(i), frame[i].apply_grad_eqns)

\* candidates [a, b, c], operations reading only b, and a literal whose
\* value is the count of the dropped c
C7_Witness ==
    \E i \in Calls :
        /\ pc[i] = "append_compute_grad"
        /\ Filtered(i, frame[i].old_grad_vars) = <<RawInvarsOf(i)[2]>>
        /\ \E k \in DOMAIN frame[i].compute_grad_eqns :
               \E x \in Range(frame[i].compute_grad_eqns[k].invars) :
                   IsLiteral(x) /\ x.val = RawInvarsOf(i)[3].count

\* every variable of the input program
AllRawVars(i) ==
    LET jaxpr == frame[i].raw_jaxpr.jaxpr
    IN  JaxprVars(jaxpr) \cup Range(jaxpr.outvars)
            \cup UNION {{x \in Range(jaxpr.eqns[k].invars) : ~IsLiteral(x)} :
                            k \in DOMAIN jaxpr.eqns}

SameAvals(xs, ys) ==
    Len(xs) = Len(ys) /\ \A k \in DOMAIN xs : xs[k].aval = ys[k].aval

\* C8: every variable the call mints differs from every variable of the
\* input program and from every other variable the call mints, and has the
\* aval of the variable it was cloned from, position by position.
C8_FreshVariables ==
    \A i \in Calls :
        LET m == frame[i].minted
            f == frame[i]
        IN  /\ \A k \in DOMAIN m :
                   /\ m[k].var.count \notin {v.count : v \in AllRawVars(i)}
                   /\ \A k2 \in DOMAIN m : k2 # k => m[k2].var.count # m[k].var.count
                   /\ m[k].var.aval = m[k].from.aval
            /\ Range(f.old_grad_vars) \cup Range(f.new_grad_vars)
                   \cup Range(f.inter_grad_vars) \cup Range(f.new_outvars)
                   \cup Range(f.accumulate_grad_invars)
                   \cup Range(f.apply_grad_invars)
                   \subseteq {m[k].var : k \in DOMAIN m}
            /\ pc[i] \notin {"seed", "find_marker", "create_grad_vars",
                             "AssertionError"} =>
                   /\ SameAvals(f.old_grad_vars, f.out_grad_vars)
                   /\ SameAvals(f.new_grad_vars, f.out_grad_vars)
            /\ f.inter_grad_vars # <<>> =>
                   SameAvals(f.inter_grad_vars, f.out_grad_vars)
            /\ f.new_outvars # <<>> =>
                   SameAvals(f.new_outvars, f.raw_jaxpr.jaxpr.outvars)
            /\ \A k \in DOMAIN f.combined_eqns :
                   LET eqn == f.combined_eqns[k]
                   IN  (eqn.primitive = pipeline_p
                           /\ eqn.params.mark_type = "start") =>
                       SameAvals(eqn.invars, eqn.outvars)

C8_Witness ==
    \E i \in Calls :
        /\ pc[i] = "returned"
        /\ Len(frame[i].minted) >= 12
        /\ \E k \in DOMAIN frame[i].minted :
               frame[i].minted[k].var.count =
                   1 + Max({v.count : v \in AllRawVars(i)})
        /\ \E k, k2 \in DOMAIN frame[i].minted :
               frame[i].minted[k].var.aval # frame[i].minted[k2].var.aval

\* C9: calls whose steps interleave share no gensym state: the counter of
\* each call is the seed of its own program plus the number of variables it
\* minted itself, and each call ends as it ends when it runs alone, with
\* the same combined program, index lists and num_grads.
C9_CallsIndependent ==
    \A i \in Calls :
        /\ pc[i] # "seed" =>
               gensym_func[i] =
                   gensym(frame[i].raw_jaxpr.jaxpr) + Len(frame[i].minted)
        /\ Ended(pc[i]) =>
               LET alone == add_gradient_accumulation(
                                frame[i].raw_jaxpr, frame[i].num_micro_batches)
               IN  /\ pc[i] = alone.pc
                   /\ frame[i].result = alone.frame.result

C9_Witness ==
    /\ Calls = {1, 2}
    /\ pc[1] = "returned" /\ pc[2] = "returned"
    /\ frame[1].raw_jaxpr # frame[2].raw_jaxpr
    /\ frame[1].num_grads >= 1 /\ frame[2].num_grads >= 1
    /\ gensym_func[1] # gensym_func[2]

\* C10 (as claimed): with a cached strategy (strategy_config not None) the
\* two internal functions fail with NotImplementedError before any pass has
\* run and before any executable is made, and never go on.
C10_CachedStrategyFailsFast ==
    (compile.strategy_config = "cached"
        /\ compile.at \notin {"shard_parallel_callable", "internal_trace",
                              "grad_acc_trace"}) =>
    /\ compile.at = "raised"
    /\ compile.error = "NotImplementedError"
    /\ compile.passes = <<>>
    /\ compile.executable = "None"

\* the position of the first grad marker of the traced program
FirstGradMarker(i) ==
    CHOOSE p \in GradMarkers(RawEqns(i)) :
        \A q \in GradMarkers(RawEqns(i)) : p <= q

\* the operations of the traced program after its grad marker
ApplyGradOps(i) ==
    SubSeq(RawEqns(i), FirstGradMarker(i) + 1, Len(RawEqns(i)))

\* the number of inputs of the grad marker of the traced program
NumGradVars(i) == Len(RawEqns(i)[FirstGradMarker(i)].invars)

\* the position of the one marker of that mark_type and name
MarkerPos(eqns, mark_type, name) ==
    CHOOSE k \in DOMAIN eqns : IsMarker(eqns[k], mark_type, name)

IsDivide(eqn) == eqn.primitive = div_p

\* C11 (as claimed): the apply-grad operations come directly after the
\* apply-grad start marker, unchanged and in order, the numGradVars divide
\* operations directly after the last of them, and then the end marker.
C11_ApplyThenDivide ==
    \A i \in Calls :
        HasResult(i) =>
        LET eqns == CombinedEqns(i)
            s == MarkerPos(eqns, "start", APPLY_GRAD_MARKER_SUFFIX)
            e == MarkerPos(eqns, "end", APPLY_GRAD_MARKER_SUFFIX)
            ops == ApplyGradOps(i)
            ng == NumGradVars(i)
        IN  /\ e = s + Len(ops) + ng + 1
            /\ \A k \in DOMAIN ops : eqns[s + k] = ops[k]
            /\ \A j \in 1..ng : IsDivide(eqns[s + Len(ops) + j])

\* C11 (amended): the numGradVars divide operations come directly after the
\* apply-grad start marker, the apply-grad operations directly after the
\* last divide, unchanged and in order, and then the end marker; no
\* apply-grad operation precedes a divide.
C11_DivideThenApply ==
    \A i \in Calls :
        HasResult(i) =>
        LET eqns == CombinedEqns(i)
            s == MarkerPos(eqns, "start", APPLY_GRAD_MARKER_SUFFIX)
            e == MarkerPos(eqns, "end", APPLY_GRAD_MARKER_SUFFIX)
            ops == ApplyGradOps(i)
            ng == NumGradVars(i)
        IN  /\ e = s + ng + Len(ops) + 1
            /\ \A j \in 1..ng : IsDivide(eqns[s + j])
            /\ \A k \in DOMAIN ops : eqns[s + ng + k] = ops[k]
            /\ \A j \in 1..ng, k \in DOMAIN ops :
                   ~ IsDivide(ops[k]) /\ s + j < s + ng + k

C11_Witness ==
    \E i \in Calls :
        /\ HasResult(i)
        /\ NumGradVars(i) >= 2
        /\ Len(ApplyGradOps(i)) >= 2
        /\ LET eqns == CombinedEqns(i)
               s == MarkerPos(eqns, "start", APPLY_GRAD_MARKER_SUFFIX)
           IN  IsDivide(eqns[s + 1]) /\ ~ IsDivide(eqns[s + NumGradVars(i) + 1])

\* C13: after the compute-grad operations and before the '_accumulate_grad'
\* end marker come exactly numGradVars add operations, the i-th being
\* newGradVars[i] = oldGradVars[i] + outGradVars[i] with outGradVars[i] the
\* i-th input of the grad marker; the end marker reads newGradVars and
\* writes interGradVars slot by slot; and all four lists have as many
\* entries as the grad marker has inputs, whatever its number of outputs.
C13_AccumulationAdds ==
    \A i \in Calls :
        HasResult(i) =>
        LET eqns == CombinedEqns(i)
            p == FirstGradMarker(i)
            ng == NumGradVars(i)
            outGradVars == RawEqns(i)[p].invars
            start == eqns[MarkerPos(eqns, "start", "_accumulate_grad")]
            e == MarkerPos(eqns, "end", "_accumulate_grad")
            oldGradVars == frame[i].old_grad_vars
            newGradVars == frame[i].new_grad_vars
            interGradVars == frame[i].inter_grad_vars
        IN  /\ Len(oldGradVars) = ng /\ Len(newGradVars) = ng
            /\ Len(interGradVars) = ng /\ Len(outGradVars) = ng
            /\ frame[i].num_grads = ng /\ frame[i].result.num_grads = ng
            /\ e = p + ng + 1
            /\ \A k \in 2..p : eqns[k] = RawEqns(i)[k - 1]
            /\ {k \in 1..e : eqns[k].primitive = add_p} = (p + 1)..(p + ng)
            /\ \A j \in 1..ng :
                   /\ eqns[p + j].invars = <<oldGradVars[j], outGradVars[j]>>
                   /\ eqns[p + j].outvars = <<newGradVars[j]>>
                   /\ oldGradVars[j] = start.outvars[Len(start.outvars) - ng + j]
            /\ eqns[e].invars = newGradVars
            /\ eqns[e].outvars = interGradVars

C13_Witness ==
    \E i \in Calls :
        /\ HasResult(i)
        /\ NumGradVars(i) >= 2
        /\ Len(RawEqns(i)[FirstGradMarker(i)].outvars) # NumGradVars(i)
        /\ Cardinality({k \in DOMAIN CombinedEqns(i) :
                           CombinedEqns(i)[k].primitive = add_p}) >= 2

\* the outputs of the grad marker of the traced program: the gradient slots
\* as the operations after the marker read them
GradMarkerOutvars(i) == RawEqns(i)[FirstGradMarker(i)].outvars

Divides(i) == {k \in DOMAIN CombinedEqns(i) : IsDivide(CombinedEqns(i)[k])}

\* C12 (as claimed): whatever the numbers of inputs and outputs of the grad
\* marker, the combined program holds exactly numGradVars divide operations,
\* each dividing in place, by the literal M, one of the last numGradVars
\* outputs of the apply-grad start marker, which is an output of the grad
\* marker; every gradient slot is divided exactly once and no input of the
\* program is divided.
C12_DividesGradientSlots ==
    \A i \in Calls :
        HasResult(i) =>
        LET eqns == CombinedEqns(i)
            ng == NumGradVars(i)
            start == eqns[MarkerPos(eqns, "start", APPLY_GRAD_MARKER_SUFFIX)]
            last == SliceFromNeg(start.outvars, ng)
        IN  /\ Cardinality(Divides(i)) = ng
            /\ \A k \in Divides(i) :
                   /\ Len(eqns[k].invars) = 2
                   /\ eqns[k].invars[1] \in Range(last)
                   /\ eqns[k].invars[1] \in Range(GradMarkerOutvars(i))
                   /\ eqns[k].invars[1] \notin Range(RawInvarsOf(i))
                   /\ IsLiteral(eqns[k].invars[2])
                   /\ eqns[k].invars[2].val = frame[i].num_micro_batches
                   /\ eqns[k].outvars = <<eqns[k].invars[1]>>
            /\ \A j \in DOMAIN GradMarkerOutvars(i) :
                   Cardinality({k \in Divides(i) :
                       eqns[k].invars[1] = GradMarkerOutvars(i)[j]}) = 1

\* C14: for every gradient slot j, the input of the apply-grad start marker
\* paired with the j-th output of the grad marker is interGradVars[j], the
\* j-th output of the '_accumulate_grad' end marker, whose j-th input is the
\* sum that reads the j-th input of the grad marker; it is paired with that
\* output only, and is no input of the combined program.
C14_RegionsConnected ==
    \A i \in Calls :
        HasResult(i) =>
        LET eqns == CombinedEqns(i)
            start == eqns[MarkerPos(eqns, "start", APPLY_GRAD_MARKER_SUFFIX)]
            acc_end == eqns[MarkerPos(eqns, "end", "_accumulate_grad")]
            slots == GradMarkerOutvars(i)
        IN  /\ Len(start.invars) = Len(start.outvars)
            /\ \A j \in DOMAIN slots :
                   /\ j \in DOMAIN acc_end.outvars
                   /\ Cardinality({k \in DOMAIN start.outvars :
                                      start.outvars[k] = slots[j]}) = 1
                   /\ \A k \in DOMAIN start.outvars :
                          (start.outvars[k] = slots[j]) <=>
                          (start.invars[k] = acc_end.outvars[j])
                   /\ acc_end.outvars[j] \notin Range(CombinedInvars(i))
                   /\ \E k \in DOMAIN eqns :
                          /\ eqns[k].primitive = add_p
                          /\ eqns[k].outvars = <<acc_end.invars[j]>>
                          /\ eqns[k].invars[2] =
                                 RawEqns(i)[FirstGradMarker(i)].invars[j]

C14_Witness ==
    \E i \in Calls :
        /\ HasResult(i)
        /\ Len(GradMarkerOutvars(i)) >= 2
        /\ LET eqns == CombinedEqns(i)
               start == eqns[MarkerPos(eqns, "start", APPLY_GRAD_MARKER_SUFFIX)]
           IN  Len(start.invars) > Len(GradMarkerOutvars(i))

\* the operations of the traced program before its grad marker
ComputeGradOps(i) == SubSeq(RawEqns(i), 1, FirstGradMarker(i) - 1)

\* the inputs of a marker paired with var as its output
PairedInputs(marker, var) ==
    {marker.invars[q] : q \in {q \in DOMAIN marker.outvars :
                                  marker.outvars[q] = var}}

\* C15: an input of the program read on both sides of the grad marker has
\* one fresh copy, which is its paired input in both start markers and
\* occurs in the combined inputs once, where the input was; an input read
\* only after the grad marker has a fresh copy minted after every variable
\* of the accumulate-grad region, in no '_accumulate_grad' marker; an input
\* read on neither side stays itself in the combined inputs.
C15_InputCopies ==
    \A i \in Calls :
        HasResult(i) =>
        LET eqns == CombinedEqns(i)
            acc == eqns[MarkerPos(eqns, "start", "_accumulate_grad")]
            acc_end == eqns[MarkerPos(eqns, "end", "_accumulate_grad")]
            app == eqns[MarkerPos(eqns, "start", APPLY_GRAD_MARKER_SUFFIX)]
            raw_counts == {v.count : v \in AllRawVars(i)}
        IN  \A k \in DOMAIN RawInvarsOf(i) :
                LET var == RawInvarsOf(i)[k]
                    in_compute == ReadBy(var, ComputeGradOps(i))
                    in_apply == ReadBy(var, ApplyGradOps(i))
                    copy == CombinedInvars(i)[k]
                IN  /\ (in_compute /\ in_apply) =>
                        /\ PairedInputs(acc, var) = {copy}
                        /\ PairedInputs(app, var) = {copy}
                        /\ copy.count \notin raw_counts
                        /\ {q \in DOMAIN CombinedInvars(i) :
                               CombinedInvars(i)[q] = copy} = {k}
                    /\ (~in_compute /\ in_apply) =>
                        /\ PairedInputs(acc, var) = {}
                        /\ PairedInputs(app, var) = {copy}
                        /\ copy.count \notin raw_counts
                        /\ copy \notin Range(acc.invars)
                        /\ \A v \in Range(acc.invars) \cup Range(acc_end.invars)
                                      \cup Range(acc_end.outvars) :
                               v.count < copy.count
                    /\ (~in_compute /\ ~in_apply) =>
                        /\ copy = var
                        /\ PairedInputs(acc, var) = {}
                        /\ PairedInputs(app, var) = {}

C15_Witness ==
    \E i \in Calls :
        /\ HasResult(i)
        /\ NumGradVars(i) >= 1
        /\ \E a, b, c \in Range(RawInvarsOf(i)) :
               /\ ReadBy(a, ComputeGradOps(i)) /\ ReadBy(a, ApplyGradOps(i))
               /\ ~ReadBy(b, ComputeGradOps(i)) /\ ReadBy(b, ApplyGradOps(i))
               /\ ~ReadBy(c, ComputeGradOps(i)) /\ ~ReadBy(c, ApplyGradOps(i))

RawOutvarsOf(i) == frame[i].raw_jaxpr.jaxpr.outvars

CombinedOutvars(i) == frame[i].result.combined_jaxpr.jaxpr.outvars

\* xs holds one fresh variable for each entry of the outputs of the traced
\* program, in order: of the same aval, in no part of the traced program,
\* and no two the same
FreshClonesOfOutvars(i, xs) ==
    /\ SameAvals(xs, RawOutvarsOf(i))
    /\ \A k \in DOMAIN xs :
           /\ xs[k].count \notin {v.count : v \in AllRawVars(i)}
           /\ \A k2 \in DOMAIN xs : k2 # k => xs[k2] # xs[k]

LastEqn(i) == CombinedEqns(i)[Len(CombinedEqns(i))]

\* C16 (as claimed): the last operation of the combined program is the
\* apply-grad 'end' marker; its inputs are newOutvars, one fresh clone for
\* each output of the traced program in order, its outputs are the outputs
\* of the traced program, and the outputs of the combined program are
\* newOutvars.
C16_EndMarkerNewToOld ==
    \A i \in Calls :
        HasResult(i) =>
        /\ IsMarker(LastEqn(i), "end", APPLY_GRAD_MARKER_SUFFIX)
        /\ LastEqn(i).invars = CombinedOutvars(i)
        /\ LastEqn(i).outvars = RawOutvarsOf(i)
        /\ FreshClonesOfOutvars(i, CombinedOutvars(i))

\* C16 (amended): the last operation of the combined program is the
\* apply-grad 'end' marker; its inputs are the outputs of the traced
\* program, its outputs are newOutvars, one fresh clone for each output of
\* the traced program in order, and the outputs of the combined program are
\* newOutvars.
C16_EndMarkerOldToNew ==
    \A i \in Calls :
        HasResult(i) =>
        /\ IsMarker(LastEqn(i), "end", APPLY_GRAD_MARKER_SUFFIX)
        /\ LastEqn(i).invars = RawOutvarsOf(i)
        /\ LastEqn(i).outvars = CombinedOutvars(i)
        /\ FreshClonesOfOutvars(i, CombinedOutvars(i))

C16_Witness ==
    \E i \in Calls :
        /\ HasResult(i)
        /\ Len(RawOutvarsOf(i)) >= 2
        /\ RawOutvarsOf(i)[1] \in Range(RawInvarsOf(i))
        /\ LastEqn(i).outvars # LastEqn(i).invars

\* the operations of the combined program that have var as an output
Binders(i, var) ==
    {k \in DOMAIN CombinedEqns(i) : var \in Range(CombinedEqns(i)[k].outvars)}

BoundVars(i) ==
    UNION {Range(CombinedEqns(i)[k].outvars) : k \in DOMAIN CombinedEqns(i)}

\* C17 (as claimed): a variable that more than one operation of the
\* combined program has as an output is either an output of the grad
\* marker, bound by the apply-grad start marker and by its divide, or an
\* input of the program read on both sides of the grad marker, bound by the
\* two start markers; nothing else is bound twice.
C17_SingleAssignmentSites ==
    \A i \in Calls :
        HasResult(i) =>
        LET eqns == CombinedEqns(i)
            acc == MarkerPos(eqns, "start", "_accumulate_grad")
            app == MarkerPos(eqns, "start", APPLY_GRAD_MARKER_SUFFIX)
        IN  \A v \in BoundVars(i) :
                Cardinality(Binders(i, v)) > 1 =>
                \/ /\ v \in Range(GradMarkerOutvars(i))
                   /\ \E d \in Divides(i) :
                          /\ eqns[d].outvars = <<v>>
                          /\ Binders(i, v) = {app, d}
                \/ /\ v \in Range(RawInvarsOf(i))
                   /\ ReadBy(v, ComputeGradOps(i))
                   /\ ReadBy(v, ApplyGradOps(i))
                   /\ Binders(i, v) = {acc, app}

NonLiterals(xs) == {x \in Range(xs) : ~IsLiteral(x)}

\* the outputs of the operations of eqns before position k
BoundBefore(eqns, k) ==
    UNION {Range(eqns[k2].outvars) : k2 \in {q \in DOMAIN eqns : q < k}}

\* the traced program binds no variable twice; an operation before its grad
\* marker gives each input of the marker; and each operation after the
\* marker and each output reads inputs or constants of the program, outputs
\* of the marker and outputs of earlier operations after the marker only
WellFormedRaw(i) ==
    LET raw == RawEqns(i)
        jaxpr == frame[i].raw_jaxpr.jaxpr
        p == FirstGradMarker(i)
        given == Range(jaxpr.invars) \cup Range(jaxpr.constvars)
        After(k) == UNION {Range(raw[k2].outvars) :
                              k2 \in {q \in DOMAIN raw : p <= q /\ q < k}}
    IN  /\ \A k1, k2 \in DOMAIN raw :
               k1 # k2 => Range(raw[k1].outvars) \cap Range(raw[k2].outvars) = {}
        /\ \A k \in DOMAIN raw : Range(raw[k].outvars) \cap given = {}
        /\ NonLiterals(raw[p].invars) \subseteq BoundBefore(raw, p)
        /\ \A k \in DOMAIN raw :
               k > p => NonLiterals(raw[k].invars) \subseteq given \cup After(k)
        /\ NonLiterals(jaxpr.outvars) \subseteq given \cup After(Len(raw) + 1)

\* C18: for a traced program that is well formed in that way, every
\* variable an operation of the combined program reads is an input or a
\* constant of the combined program or an output of an earlier operation,
\* every output of the combined program is an output of an operation, and
\* no operation strictly between the two apply-grad markers reads a variable
\* that only operations up to the '_accumulate_grad' end marker bind.
C18_ResultWellFormed ==
    \A i \in Calls :
        (HasResult(i) /\ WellFormedRaw(i)) =>
        LET eqns == CombinedEqns(i)
            jaxpr == frame[i].result.combined_jaxpr.jaxpr
            given == Range(jaxpr.invars) \cup Range(jaxpr.constvars)
            acc_end == MarkerPos(eqns, "end", "_accumulate_grad")
            app == MarkerPos(eqns, "start", APPLY_GRAD_MARKER_SUFFIX)
            app_end == MarkerPos(eqns, "end", APPLY_GRAD_MARKER_SUFFIX)
        IN  /\ \A k \in DOMAIN eqns :
                   NonLiterals(eqns[k].invars)
                       \subseteq given \cup BoundBefore(eqns, k)
            /\ Range(jaxpr.outvars) \subseteq BoundVars(i)
            /\ \A k \in DOMAIN eqns :
                   (app < k /\ k < app_end) =>
                   \A v \in NonLiterals(eqns[k].invars) :
                       ~ (/\ Binders(i, v) # {}
                          /\ \A b \in Binders(i, v) : b <= acc_end)

C18_Witness ==
    \E i \in Calls :
        /\ HasResult(i)
        /\ WellFormedRaw(i)
        /\ NumGradVars(i) >= 2
        /\ RawOutvarsOf(i)[1] \in Range(RawInvarsOf(i))
        /\ ReadBy(RawOutvarsOf(i)[1], ComputeGradOps(i))
        /\ ~ReadBy(RawOutvarsOf(i)[1], ApplyGradOps(i))
        /\ \E v \in Range(RawInvarsOf(i)) :
               ReadBy(v, ComputeGradOps(i)) /\ ReadBy(v, ApplyGradOps(i))

\* the pairs of positive integers whose product is n
MeshShapePairs(n) == {<<a, b>> \in (1..n) \X (1..n) : a * b = n}

\* C19 (as claimed): with the search of logical mesh shapes enabled on a
\* physical mesh and no cached record loaded, logical_mesh_choices holds a
\* logical mesh of shape (a, b) for every a * b = num_devices and nothing
\* else, so it is not empty and logical_mesh_choices[0] is defined.
C19_AllMeshShapes ==
    (/\ compile.shard_parallel_search_logical_mesh_shape
     /\ compile.devices \in {"None", "list", "DeviceCluster",
                             "PhysicalDeviceMesh"}
     /\ compile.strategy_config # "cached"
     /\ compile.at # "shard_parallel_callable") =>
    /\ {compile.logical_mesh_choices[k].mesh_shape :
           k \in DOMAIN compile.logical_mesh_choices}
           = MeshShapePairs(compile.num_devices)
    /\ compile.logical_mesh_choices # <<>>
    /\ compile.error # "IndexError"

====
